---- MODULE Spec2Model ----
(***************************************************************************)
(* Shared Diabetes Diary Telegram bot (diabetes_diary_bot.py).             *)
(*                                                                         *)
(* State:                                                                  *)
(*   now        the wall clock, in ticks; it only advances                 *)
(*   store      the sqlite table `entries`, in insertion order             *)
(*   conv       the state ConversationHandler keeps per (chat, user)       *)
(*   user_data  the dictionary the framework keeps per user (one for all   *)
(*              the chats of that user)                                    *)
(*   out        what the handler that ran last replied to a report request *)
(*              (NoReport after any other handler)                         *)
(*   pdfIn, pdfOut  arguments and result of generate_pdf_buffer in SpecPdf *)
(*                                                                         *)
(* Handlers run one at a time on the event loop; none awaits between its   *)
(* reads and writes of this state, so each is one step.  Lengths are in    *)
(* millimetres, as in the source (every length there is a multiple of mm). *)
(***************************************************************************)
EXTENDS Integers, Sequences, FiniteSets, TLC

VARIABLES now, store, conv, user_data, out, pdfIn, pdfOut, tasks, running, plt

vars == <<now, store, conv, user_data, out, pdfIn, pdfOut, tasks, running, plt>>

(***************************************************************************)
(* Bounds of the model.                                                    *)
(***************************************************************************)
MaxNow == 2          \* the clock runs over ticks 0..MaxNow
MaxStore == 2        \* entries inserted in one run of the main specification
MaxActive == 1       \* conversations in progress at the same time
MaxRows == 41        \* rows handed to generate_pdf_buffer in SpecPdf
TicksPerSec == 2     \* sub-second ("microsecond") ticks in a second
SecsPerDay == 1      \* seconds in a day

Chats == {1, 2}
Users == {1, 2}
Members == {<<1, 1>>, <<1, 2>>, <<2, 1>>}    \* <<chat, user>>: who writes where

None == <<>>         \* Python None / SQL NULL
Some(v) == <<v>>

(***************************************************************************)
(* Telegram facts about chats and users.                                   *)
(***************************************************************************)
ChatTitle(c) == IF c = 1 THEN Some("Family") ELSE None
UserName(u) == IF u = 1 THEN Some("ana") ELSE None
FullName(u) == IF u = 1 THEN "Ana A" ELSE "Bo B"

DAILY_REPORT_CHAT_ID == 1

(***************************************************************************)
(* Conversation states (ConversationHandler.END is -1).                    *)
(***************************************************************************)
MEAL == 0
PRE_BGL == 1
POST_BGL == 2
CARBS == 3
RATIO == 4
UNITS == 5
NOTES == 6
CONFIRM == 7
END == -1

(***************************************************************************)
(* datetime: a timestamp is <<day, second of the day, sub-second tick>>.   *)
(* isoformat() omits the fractional part when it is zero; the text is      *)
(* modelled as the sequence of its numeric fields, and TEXT comparison in  *)
(* sqlite as the lexicographic order in which a proper prefix sorts first. *)
(***************************************************************************)
DateTimeOf(t) ==
    <<t \div (TicksPerSec * SecsPerDay), (t \div TicksPerSec) % SecsPerDay, t % TicksPerSec>>

DateOf(ts) == ts[1]

IsoFormat(ts) == IF ts[3] = 0 THEN <<ts[1], ts[2]>> ELSE <<ts[1], ts[2], ts[3]>>

DateIso(d) == <<d>>

BadText == <<>>      \* a text that is no ISO timestamp

IsIso(s) == Len(s) \in {2, 3}

FromIsoFormat(s) == IF Len(s) = 2 THEN <<s[1], s[2], 0>> ELSE <<s[1], s[2], s[3]>>

StrfTime(ts) == <<ts[1], ts[2]>>     \* "%Y-%m-%d %H:%M" drops what is below the minute

RECURSIVE TextLE(_, _)
TextLE(a, b) ==
    IF a = <<>> THEN TRUE
    ELSE IF b = <<>> THEN FALSE
    ELSE IF a[1] # b[1] THEN a[1] < b[1]
    ELSE TextLE(Tail(a), Tail(b))

(***************************************************************************)
(* float(text) and str(float).  A float is modelled in tenths (7.0 is 70). *)
(***************************************************************************)
CanFloat(t) == t \in {"0", "7", "7.0", "5.5", "9"}

ParseFloat(t) ==
    CASE t = "0" -> 0
      [] t = "7" -> 70
      [] t = "7.0" -> 70
      [] t = "5.5" -> 55
      [] t = "9" -> 90

FloatStr(v) ==
    CASE v = 0 -> "0.0"
      [] v = 55 -> "5.5"
      [] v = 70 -> "7.0"
      [] v = 90 -> "9.0"

Strip(t) ==
    CASE t = "lunch " -> "lunch"
      [] t = " ok" -> "ok"
      [] OTHER -> t

Lower(t) ==
    CASE t = "YES" -> "yes"
      [] t = "Y" -> "y"
      [] t = "TODAY" -> "today"
      [] OTHER -> t

(***************************************************************************)
(* Database: the table `entries`, a sequence of rows in insertion order.   *)
(***************************************************************************)
Row(id, chat_id, user_id, username, timestamp, local_date, meal, pre, post, carbs, ratio, units, notes) ==
    [id |-> id, chat_id |-> chat_id, user_id |-> user_id, username |-> username,
     timestamp |-> timestamp, local_date |-> local_date, meal |-> meal,
     pre_bgl |-> pre, post_bgl |-> post, carbs |-> carbs, ratio |-> ratio,
     insulin_units |-> units, notes |-> notes]

save_entry_overwrite(st, t, chat_id, user_id, username, meal, pre, post, carbs, ratio, units, notes) ==
    LET ts == DateTimeOf(t)
        row == Row(1, chat_id, user_id, username, IsoFormat(ts), DateIso(DateOf(ts)),
                   meal, pre, post, carbs, ratio, units, notes)
    IN  <<row>>

save_entry(st, t, chat_id, user_id, username, meal, pre, post, carbs, ratio, units, notes) ==
    LET ts == DateTimeOf(t)
        row == Row(Len(st) + 1, chat_id, user_id, username, IsoFormat(ts), DateIso(DateOf(ts)),
                   meal, pre, post, carbs, ratio, units, notes)
    IN  Append(st, row)

Range(s) == {s[i] : i \in 1..Len(s)}

OrderedBy_desc(S) ==
    {s \in [1..Cardinality(S) -> S] :
        /\ \A i, j \in 1..Cardinality(S) : i < j => s[i] # s[j]
        /\ \A i, j \in 1..Cardinality(S) : i < j => TextLE(s[j].timestamp, s[i].timestamp)}

\* the orders that ORDER BY timestamp ASC may return the rows of S in
OrderedBy(S) ==
    {s \in [1..Cardinality(S) -> S] :
        /\ \A i, j \in 1..Cardinality(S) : i < j => s[i] # s[j]
        /\ \A i, j \in 1..Cardinality(S) : i < j => TextLE(s[i].timestamp, s[j].timestamp)}

Selected_after(st, chat_id, since_date) ==
    {r \in Range(st) : r.chat_id = chat_id /\ TextLE(DateIso(since_date), r.local_date)
                                           /\ r.local_date # DateIso(since_date)}

Selected_any_chat(st, chat_id, since_date) ==
    {r \in Range(st) : TextLE(DateIso(since_date), r.local_date)}

Selected(st, chat_id, since_date) ==
    {r \in Range(st) : r.chat_id = chat_id /\ TextLE(DateIso(since_date), r.local_date)}

fetch_entries_for_chat(st, chat_id, since_date) ==
    OrderedBy(Selected(st, chat_id, since_date))

(***************************************************************************)
(* PDF generation.  The canvas is [pages, code]: the pages already closed  *)
(* by showPage and the operations drawn on the page being built.  Every    *)
(* operation is an item [kind, y, ts, data, id]; y is its baseline.        *)
(***************************************************************************)
PageWidth == 297     \* landscape(A4), in mm
PageHeight == 210
margin == 15
TitleGap == 10
PeriodGap == 8
max_h == 60
ChartGap == 8
RowHeight == 6
BottomReserve == 20
NotesMax == 150

PlotSizes == {<<8, 3>>, <<6, 1>>}   \* pixel width and height of the saved chart

Min(a, b) == IF a < b THEN a ELSE b

Item(kind, y, ts, data, id) == [kind |-> kind, y |-> y, ts |-> ts, data |-> data, id |-> id]

NewCanvas == [pages |-> <<>>, code |-> <<>>]

Draw(c, item) == [c EXCEPT !.code = Append(@, item)]

showPage(c) == [pages |-> Append(c.pages, c.code), code |-> <<>>]

\* Canvas.save(): the page being built is emitted when it holds any operation
CanvasSave(c) == IF Len(c.code) > 0 THEN showPage(c) ELSE c

NumCell(v) == IF v = None \/ v[1] = 0 THEN "" ELSE FloatStr(v[1])

NotesCell(v) ==
    LET t == IF v = None THEN "" ELSE v[1]
    IN  IF Len(t) > NotesMax THEN SubSeq(t, 1, NotesMax) ELSE t

RowData(r) ==
    <<r.meal, NumCell(r.pre_bgl), NumCell(r.post_bgl), NumCell(r.carbs), r.ratio,
      NumCell(r.insulin_units), r.username, NotesCell(r.notes)>>

Headers == <<"Meal", "Pre", "Post", "Carbs", "Ratio", "Units", "By", "Notes">>

PageBreak_at_margin(y) == y < margin

PageBreak(y) == y < margin + BottomReserve

RECURSIVE DrawRows(_, _, _)
DrawRows(rows, c, y) ==
    IF rows = <<>> THEN c
    ELSE LET r == Head(rows)
             c1 == Draw(c, Item("row", y, StrfTime(FromIsoFormat(r.timestamp)), RowData(r), r.id))
             y1 == y - RowHeight
         IN  IF PageBreak(y1)
             THEN DrawRows(Tail(rows), Draw(showPage(c1), Item("font", 0, <<>>, <<>>, 0)),
                           PageHeight - margin)
             ELSE DrawRows(Tail(rows), c1, y1)

PlotHeight(img) == Min(max_h, ((PageWidth - 2 * margin) * img[2]) \div img[1])

Raised == [ok |-> FALSE, pages |-> <<>>]

\* lines 145-202: the canvas, once every timestamp has been parsed
Paint(chat_title, rows, start_date, end_date, img) ==
    LET y0 == PageHeight - margin
        c0 == Draw(NewCanvas, Item("title", y0, <<>>, <<chat_title>>, 0))
        y1 == y0 - TitleGap
        c1 == Draw(c0, Item("period", y1, <<start_date, end_date>>, <<>>, 0))
        y2 == y1 - PeriodGap
        plot == rows # <<>>
        plot_h == PlotHeight(img)
        c2 == IF plot THEN Draw(c1, Item("chart", y2 - plot_h, <<>>, <<>>, 0)) ELSE c1
        y3 == IF plot THEN y2 - (plot_h + ChartGap) ELSE y2
        c3 == Draw(c2, Item("header", y3, <<>>, Headers, 0))
        y4 == y3 - RowHeight
        c4 == DrawRows(rows, c3, y4)
    IN  [ok |-> TRUE, pages |-> CanvasSave(c4).pages]

\* the latest row of every (local_date, meal): what a last-write-wins table would keep
Latest(rows) ==
    LET Keep(r) == \A i \in 1..Len(rows) :
                       (rows[i].local_date = r.local_date /\ rows[i].meal = r.meal)
                           => TextLE(rows[i].timestamp, r.timestamp)
    IN  SelectSeq(rows, Keep)

generate_pdf_buffer_lww(chat_title, rows, start_date, end_date, img) ==
    IF \E i \in 1..Len(rows) : ~IsIso(rows[i].timestamp) THEN Raised
    ELSE Paint(chat_title, Latest(rows), start_date, end_date, img)

\* fromisoformat (line 125) raises ValueError on a text that is no ISO timestamp
generate_pdf_buffer(chat_title, rows, start_date, end_date, img) ==
    IF \E i \in 1..Len(rows) : ~IsIso(rows[i].timestamp) THEN Raised
    ELSE Paint(chat_title, rows, start_date, end_date, img)

(***************************************************************************)
(* Texts the users send.                                                   *)
(***************************************************************************)
MealTexts == {"lunch "}
PreTexts(c, u) ==       \* what each member measures before the meal
    IF c = 2 THEN {"-", "x"} ELSE IF u = 1 THEN {"0", "x"} ELSE {"7", "x"}
PostTexts == {"9", "x"}
CarbsTexts == {"5.5", "x"}
RatioTexts == {"1:10"}
UnitsTexts == {"-", "x"}
NotesTexts(c, u) == IF c = 2 THEN {"-"} ELSE {" ok"}
ConfirmTexts == {"YES", "y", "no"}
ReportArgs == {None, Some("TODAY"), Some("0"), Some("abc")}

Msgs(texts) == {None} \cup {Some(t) : t \in texts}    \* None: an update without text

(***************************************************************************)
(* user_data: a dictionary, modelled as a function on the keys it holds.   *)
(***************************************************************************)
EmptyDict == <<>>
Put(d, k, v) == (k :> v) @@ d
AllKeys == {"meal", "pre_bgl", "post_bgl", "carbs", "ratio", "insulin_units", "notes"}

\* the report requests the event loop runs as tasks: /report in a chat, the daily job
Requests ==
    {[op |-> "report", chat_id |-> c] : c \in Chats}
        \cup {[op |-> "daily", chat_id |-> DAILY_REPORT_CHAT_ID]}

\* a request not yet received: the locals of its coroutine hold nothing
NewTask ==
    [pc |-> "new", title |-> "", rows |-> <<>>, start_date |-> 0, end_date |-> 0,
     series |-> <<>>, plot_buf |-> None, pdf |-> None]

NoTasks == [r \in Requests |-> NewTask]

NoReport ==
    [op |-> "none", chat_id |-> 0, days |-> 0, start_date |-> 0, end_date |-> 0,
     rows |-> <<>>, pdf |-> None, sent |-> "nothing"]

Init ==
    /\ now = 0
    /\ store = <<>>
    /\ conv = [c \in Chats |-> [u \in Users |-> END]]
    /\ user_data = [u \in Users |-> EmptyDict]
    /\ out = NoReport
    /\ pdfIn = [rows |-> <<>>, img |-> <<8, 3>>]
    /\ pdfOut = None
    /\ tasks = NoTasks /\ running = None /\ plt = <<>>

Tick ==
    /\ now < MaxNow
    /\ now' = now + 1
    /\ out' = NoReport /\ UNCHANGED <<store, conv, user_data, pdfIn, pdfOut, tasks, running, plt>>

(***************************************************************************)
(* Conversation handlers.  A handler runs for (c, u) only in its state.    *)
(***************************************************************************)
Goto(c, u, s) == conv' = [conv EXCEPT ![c][u] = s]

SetData(u, k, v) == user_data' = [user_data EXCEPT ![u] = Put(@, k, v)]

Active == {k \in Members : conv[k[1]][k[2]] # END}

entry_command(c, u) ==
    /\ conv[c][u] = END
    /\ Cardinality(Active) < MaxActive
    /\ Goto(c, u, MEAL)
    /\ out' = NoReport /\ UNCHANGED <<now, store, user_data, pdfIn, pdfOut, tasks, running, plt>>

\* "-" stands for None; any other answer must be a float
IsNumberAnswer(t) == t = "-" \/ CanFloat(t)
NumberOf(t) == IF t = "-" THEN None ELSE Some(ParseFloat(t))

meal_received(c, u, msg) ==
    /\ conv[c][u] = MEAL
    /\ IF msg = None
       THEN UNCHANGED <<conv, user_data>>
       ELSE SetData(u, "meal", Strip(msg[1])) /\ Goto(c, u, PRE_BGL)
    /\ out' = NoReport /\ UNCHANGED <<now, store, pdfIn, pdfOut, tasks, running, plt>>

pre_bgl(c, u, msg) ==
    /\ conv[c][u] = PRE_BGL
    /\ IF msg = None \/ ~IsNumberAnswer(Strip(msg[1]))
       THEN UNCHANGED <<conv, user_data>>
       ELSE SetData(u, "pre_bgl", NumberOf(Strip(msg[1]))) /\ Goto(c, u, POST_BGL)
    /\ out' = NoReport /\ UNCHANGED <<now, store, pdfIn, pdfOut, tasks, running, plt>>

post_bgl(c, u, msg) ==
    /\ conv[c][u] = POST_BGL
    /\ IF msg = None \/ ~IsNumberAnswer(Strip(msg[1]))
       THEN UNCHANGED <<conv, user_data>>
       ELSE SetData(u, "post_bgl", NumberOf(Strip(msg[1]))) /\ Goto(c, u, CARBS)
    /\ out' = NoReport /\ UNCHANGED <<now, store, pdfIn, pdfOut, tasks, running, plt>>

carbs(c, u, msg) ==
    /\ conv[c][u] = CARBS
    /\ IF msg = None \/ ~IsNumberAnswer(Strip(msg[1]))
       THEN UNCHANGED <<conv, user_data>>
       ELSE SetData(u, "carbs", NumberOf(Strip(msg[1]))) /\ Goto(c, u, RATIO)
    /\ out' = NoReport /\ UNCHANGED <<now, store, pdfIn, pdfOut, tasks, running, plt>>

ratio(c, u, msg) ==
    /\ conv[c][u] = RATIO
    /\ IF msg = None
       THEN UNCHANGED <<conv, user_data>>
       ELSE SetData(u, "ratio", Strip(msg[1])) /\ Goto(c, u, UNITS)
    /\ out' = NoReport /\ UNCHANGED <<now, store, pdfIn, pdfOut, tasks, running, plt>>

\* a units handler that takes an unreadable answer as "no value" and moves on
units_lenient(c, u, msg) ==
    /\ conv[c][u] = UNITS
    /\ IF msg = None
       THEN UNCHANGED <<conv, user_data>>
       ELSE /\ SetData(u, "insulin_units",
                       IF IsNumberAnswer(Strip(msg[1])) THEN NumberOf(Strip(msg[1])) ELSE None)
            /\ Goto(c, u, NOTES)
    /\ out' = NoReport /\ UNCHANGED <<now, store, pdfIn, pdfOut, tasks, running, plt>>

units(c, u, msg) ==
    /\ conv[c][u] = UNITS
    /\ IF msg = None \/ ~IsNumberAnswer(Strip(msg[1]))
       THEN UNCHANGED <<conv, user_data>>
       ELSE SetData(u, "insulin_units", NumberOf(Strip(msg[1]))) /\ Goto(c, u, NOTES)
    /\ out' = NoReport /\ UNCHANGED <<now, store, pdfIn, pdfOut, tasks, running, plt>>

\* the summary reads every key: a missing one raises KeyError after "notes" is set
notes(c, u, msg) ==
    /\ conv[c][u] = NOTES
    /\ IF msg = None
       THEN UNCHANGED <<conv, user_data>>
       ELSE LET t == Strip(msg[1])
                d == Put(user_data[u], "notes", IF t = "-" THEN None ELSE Some(t))
            IN  /\ user_data' = [user_data EXCEPT ![u] = d]
                /\ IF AllKeys \subseteq DOMAIN d THEN Goto(c, u, CONFIRM) ELSE UNCHANGED conv
    /\ out' = NoReport /\ UNCHANGED <<now, store, pdfIn, pdfOut, tasks, running, plt>>

confirm(c, u, msg) ==
    /\ conv[c][u] = CONFIRM
    /\ IF msg = None
       THEN UNCHANGED <<conv, user_data, store>>
       ELSE IF Lower(msg[1]) \notin {"yes", "y"}
       THEN Goto(c, u, END) /\ UNCHANGED <<user_data, store>>
       ELSE LET d == user_data[u]
            IN  IF ~(AllKeys \subseteq DOMAIN d)
                THEN UNCHANGED <<conv, user_data, store>>
                ELSE /\ Len(store) < MaxStore
                     /\ store' = save_entry(store, now, c, u,
                                    IF UserName(u) # None THEN UserName(u)[1] ELSE FullName(u),
                                    d["meal"], d["pre_bgl"], d["post_bgl"], d["carbs"],
                                    d["ratio"], d["insulin_units"], d["notes"])
                     /\ user_data' = [user_data EXCEPT ![u] = EmptyDict]
                     /\ Goto(c, u, END)
    /\ out' = NoReport /\ UNCHANGED <<now, pdfIn, pdfOut, tasks, running, plt>>

\* a /cancel that ends the conversation and keeps what was captured
cancel_keep(c, u) ==
    /\ conv[c][u] # END
    /\ Goto(c, u, END)
    /\ out' = NoReport /\ UNCHANGED <<now, store, user_data, pdfIn, pdfOut, tasks, running, plt>>

cancel(c, u) ==
    /\ conv[c][u] # END
    /\ user_data' = [user_data EXCEPT ![u] = EmptyDict]
    /\ Goto(c, u, END)
    /\ out' = NoReport /\ UNCHANGED <<now, store, pdfIn, pdfOut, tasks, running, plt>>

(***************************************************************************)
(* Reports.                                                                *)
(***************************************************************************)
CanInt(a) == a \in {"2", "0", "-1"}

ParseInt(a) ==
    CASE a = "2" -> 2
      [] a = "0" -> 0
      [] a = "-1" -> -1

DefaultDays == 7

parse_days(arg) ==
    IF arg = "" THEN DefaultDays
    ELSE LET a == Lower(arg)
         IN  IF a \in {"week", "7", "lastweek"} THEN DefaultDays
             ELSE IF a \in {"today", "1"} THEN 1
             ELSE IF CanInt(a) THEN ParseInt(a)
             ELSE DefaultDays

Today(t) == DateOf(DateTimeOf(t))

Deliver_always(op, chat_id, days, title, rows, start_date, end_date, img) ==
    LET base == [op |-> op, chat_id |-> chat_id, days |-> days,
                 start_date |-> start_date, end_date |-> end_date, rows |-> rows]
        pdf == generate_pdf_buffer(title, rows, start_date, end_date, img)
    IN  base @@ [pdf |-> Some(pdf), sent |-> IF pdf.ok THEN "document" ELSE "nothing"]

\* what both report handlers do with the fetched rows
Deliver(op, chat_id, days, title, rows, start_date, end_date, img) ==
    LET base == [op |-> op, chat_id |-> chat_id, days |-> days,
                 start_date |-> start_date, end_date |-> end_date, rows |-> rows]
    IN  IF rows = <<>>
        THEN base @@ [pdf |-> None, sent |-> "message"]
        ELSE LET pdf == generate_pdf_buffer(title, rows, start_date, end_date, img)
             IN  base @@ [pdf |-> Some(pdf), sent |-> IF pdf.ok THEN "document" ELSE "nothing"]

\* the chart saved from the 8 x 3 inch figure
ChartImage == <<8, 3>>

\* update.effective_chat and context.args are all the handler reads of the update
report_command(c, arg) ==
    LET days == IF arg # None THEN parse_days(arg[1]) ELSE DefaultDays
        end_date == Today(now)
        start_date == end_date - (days - 1)
        title == IF ChatTitle(c) # None THEN ChatTitle(c)[1] ELSE "Diary"
    IN  /\ \E rows \in fetch_entries_for_chat(store, c, start_date) :
               out' = Deliver("report", c, days, title, rows, start_date, end_date, ChartImage)
        /\ UNCHANGED <<now, store, conv, user_data, pdfIn, pdfOut, tasks, running, plt>>

send_daily_report ==
    LET chat_id == DAILY_REPORT_CHAT_ID
        today == Today(now)
    IN  /\ \E rows \in fetch_entries_for_chat(store, chat_id, today) :
               out' = Deliver("daily", chat_id, 1, "Daily Report", rows, today, today, ChartImage)
        /\ UNCHANGED <<now, store, conv, user_data, pdfIn, pdfOut, tasks, running, plt>>

Next ==
    \/ Tick
    \/ \E <<c, u>> \in Members : entry_command(c, u)
    \/ \E <<c, u>> \in Members, m \in Msgs(MealTexts) : meal_received(c, u, m)
    \/ \E <<c, u>> \in Members : \E m \in Msgs(PreTexts(c, u)) : pre_bgl(c, u, m)
    \/ \E <<c, u>> \in Members, m \in Msgs(PostTexts) : post_bgl(c, u, m)
    \/ \E <<c, u>> \in Members, m \in Msgs(CarbsTexts) : carbs(c, u, m)
    \/ \E <<c, u>> \in Members, m \in Msgs(RatioTexts) : ratio(c, u, m)
    \/ \E <<c, u>> \in Members, m \in Msgs(UnitsTexts) : units(c, u, m)
    \/ \E <<c, u>> \in Members : \E m \in Msgs(NotesTexts(c, u)) : notes(c, u, m)
    \/ \E <<c, u>> \in Members, m \in Msgs(ConfirmTexts) : confirm(c, u, m)
    \/ \E <<c, u>> \in Members : cancel(c, u)
    \/ \E c \in Chats, a \in ReportArgs : report_command(c, a)
    \/ send_daily_report

Spec == Init /\ [][Next]_vars

(***************************************************************************)
(* generate_pdf_buffer on its own: the rows of a longer diary, as the      *)
(* query returns them (one chat, ascending timestamps), of which one may   *)
(* be a legacy row whose timestamp is no ISO text.                         *)
(***************************************************************************)
Ten == "0123456789"
Fifty == Ten \o Ten \o Ten \o Ten \o Ten
LongNote == Fifty \o Fifty \o Fifty \o Ten      \* 160 characters

DiaryRow(i, bad) ==
    LET ts == DateTimeOf(i)
    IN  Row(i, 1, 1 + (i % 2), IF i % 2 = 0 THEN "ana" ELSE "Bo B",
            IF i = bad THEN BadText ELSE IsoFormat(ts), DateIso(DateOf(ts)), "lunch",
            CASE i % 3 = 0 -> None [] i % 3 = 1 -> Some(0) [] OTHER -> Some(70),
            Some(90), Some(55), "1:10", None,
            CASE i % 4 = 0 -> Some(LongNote) [] i % 4 = 1 -> None [] OTHER -> Some("ok"))

Diary(n, bad) == [i \in 1..n |-> DiaryRow(i, bad)]

PdfInputs ==
    {[rows |-> Diary(n, bad), img |-> img] : n \in 0..MaxRows, bad \in 0..MaxRows, img \in PlotSizes}

InitPdf ==
    /\ now = 0
    /\ store = <<>>
    /\ conv = [c \in Chats |-> [u \in Users |-> END]]
    /\ user_data = [u \in Users |-> EmptyDict]
    /\ out = NoReport
    /\ pdfIn \in PdfInputs
    /\ pdfOut = None
    /\ tasks = NoTasks /\ running = None /\ plt = <<>>

RunPdf ==
    /\ pdfOut = None
    /\ pdfOut' = Some(generate_pdf_buffer("Diary", pdfIn.rows, 0, Today(Len(pdfIn.rows)), pdfIn.img))
    /\ UNCHANGED <<now, store, conv, user_data, out, pdfIn, tasks, running, plt>>

NextPdf == RunPdf

SpecPdf == InitPdf /\ [][NextPdf]_vars

(***************************************************************************)
(* One user writing an entry in each chat at the same time.  The           *)
(* ConversationHandler keeps one conversation per (chat, user), so both    *)
(* are open; Init is the state after that user sent /entry in both chats.  *)
(***************************************************************************)
SharedMembers == {k \in Members : \A c \in Chats : <<c, k[2]>> \in Members}

InitShared ==
    /\ now = 0
    /\ store = <<>>
    /\ conv = [c \in Chats |-> [u \in Users |-> IF <<c, u>> \in SharedMembers THEN MEAL ELSE END]]
    /\ user_data = [u \in Users |-> EmptyDict]
    /\ out = NoReport
    /\ pdfIn = [rows |-> <<>>, img |-> <<8, 3>>]
    /\ pdfOut = None
    /\ tasks = NoTasks /\ running = None /\ plt = <<>>

NextShared ==
    \/ \E <<c, u>> \in SharedMembers : entry_command(c, u)
    \/ \E <<c, u>> \in SharedMembers, m \in Msgs(MealTexts) : meal_received(c, u, m)
    \/ \E <<c, u>> \in SharedMembers : \E m \in Msgs(PreTexts(c, u)) : pre_bgl(c, u, m)
    \/ \E <<c, u>> \in SharedMembers, m \in Msgs(PostTexts) : post_bgl(c, u, m)
    \/ \E <<c, u>> \in SharedMembers, m \in Msgs(CarbsTexts) : carbs(c, u, m)
    \/ \E <<c, u>> \in SharedMembers, m \in Msgs(RatioTexts) : ratio(c, u, m)
    \/ \E <<c, u>> \in SharedMembers, m \in Msgs(UnitsTexts) : units(c, u, m)
    \/ \E <<c, u>> \in SharedMembers : \E m \in Msgs(NotesTexts(c, u)) : notes(c, u, m)
    \/ \E <<c, u>> \in SharedMembers, m \in Msgs(ConfirmTexts) : confirm(c, u, m)
    \/ \E <<c, u>> \in SharedMembers : cancel(c, u)

SpecShared == InitShared /\ [][NextShared]_vars

(***************************************************************************)
(* Report requests as coroutines of the one event loop.  `running` is the  *)
(* coroutine the loop thread executes; it gives the thread up at an await  *)
(* only.  generate_pdf_buffer is a plain function: its statements are      *)
(* steps of the coroutine that called it.  `plt` is the list of open       *)
(* figures of matplotlib.pyplot, a module global; the last is the current  *)
(* figure.                                                                 *)
(***************************************************************************)
LoopArgs == {None, Some("0")}

\* the table the requests read: an entry of each chat, saved at tick 0
LoopStore ==
    save_entry(save_entry(<<>>, 0, 1, 1, "ana", "lunch", Some(0), Some(90), Some(55),
                          "1:10", None, Some("ok")),
               0, 2, 1, "ana", "lunch", None, Some(90), Some(55), "1:10", None, None)

InitLoop ==
    /\ now = 0
    /\ store = LoopStore
    /\ conv = [c \in Chats |-> [u \in Users |-> END]]
    /\ user_data = [u \in Users |-> EmptyDict]
    /\ out = NoReport
    /\ pdfIn = [rows |-> <<>>, img |-> <<8, 3>>]
    /\ pdfOut = None
    /\ tasks = NoTasks /\ running = None /\ plt = <<>>

Runs(r) == running = Some(r)

SetTask(r, t) == tasks' = [tasks EXCEPT ![r] = t]

NotLoopVars == <<now, store, conv, user_data, out, pdfIn, pdfOut>>

\* lines 357-362 and 366: up to the call of generate_pdf_buffer
report_begin(c, arg) ==
    LET r == [op |-> "report", chat_id |-> c]
        days == IF arg # None THEN parse_days(arg[1]) ELSE DefaultDays
        end_date == Today(now)
        start_date == end_date - (days - 1)
        title == IF ChatTitle(c) # None THEN ChatTitle(c)[1] ELSE "Diary"
    IN  /\ running = None
        /\ tasks[r].pc = "new"
        /\ \E rows \in fetch_entries_for_chat(store, c, start_date) :
               SetTask(r, [tasks[r] EXCEPT !.pc = IF rows = <<>> THEN "reply" ELSE "parse",
                                           !.title = title, !.rows = rows,
                                           !.start_date = start_date, !.end_date = end_date])
        /\ running' = Some(r)
        /\ UNCHANGED <<plt, NotLoopVars>>

\* lines 376-381 and 385
daily_begin ==
    LET r == [op |-> "daily", chat_id |-> DAILY_REPORT_CHAT_ID]
        today == Today(now)
    IN  /\ running = None
        /\ tasks[r].pc = "new"
        /\ \E rows \in fetch_entries_for_chat(store, r.chat_id, today) :
               SetTask(r, [tasks[r] EXCEPT !.pc = IF rows = <<>> THEN "reply" ELSE "parse",
                                           !.title = "Daily Report", !.rows = rows,
                                           !.start_date = today, !.end_date = today])
        /\ running' = Some(r)
        /\ UNCHANGED <<plt, NotLoopVars>>

\* await reply_text / send_message: the coroutine waits for the answer of the server
reply_no_entries(r) ==
    /\ Runs(r)
    /\ tasks[r].pc = "reply"
    /\ SetTask(r, [tasks[r] EXCEPT !.pc = "sending"])
    /\ running' = None
    /\ UNCHANGED <<plt, NotLoopVars>>

\* the values to plot; a missing value is plotted as nan, here None
Series(rows) ==
    [i \in 1..Len(rows) |->
        <<FromIsoFormat(rows[i].timestamp), rows[i].pre_bgl, rows[i].post_bgl>>]

\* lines 122-129; a timestamp that is no ISO text ends the coroutine with ValueError
gen_series(r) ==
    /\ Runs(r)
    /\ tasks[r].pc = "parse"
    /\ IF \E i \in 1..Len(tasks[r].rows) : ~IsIso(tasks[r].rows[i].timestamp)
       THEN SetTask(r, [tasks[r] EXCEPT !.pc = "done"]) /\ running' = None
       ELSE /\ SetTask(r, [tasks[r] EXCEPT !.pc = "figure", !.series = Series(tasks[r].rows)])
            /\ UNCHANGED running
    /\ UNCHANGED <<plt, NotLoopVars>>

NewFigure == [lines |-> <<>>, title |-> <<>>]

\* pyplot draws on the current figure and opens one when none is open
Gcf(figs) == IF figs = <<>> THEN <<NewFigure>> ELSE figs

\* line 132: plt.figure opens a figure and makes it the current one
gen_figure(r) ==
    /\ Runs(r)
    /\ tasks[r].pc = "figure"
    /\ plt' = Append(plt, NewFigure)
    /\ SetTask(r, [tasks[r] EXCEPT !.pc = "plot"])
    /\ UNCHANGED <<running, NotLoopVars>>

\* lines 133-138 in a coroutine that gave the thread up after plotting
gen_plot_yield(r) ==
    /\ Runs(r)
    /\ tasks[r].pc = "plot"
    /\ plt' = [Gcf(plt) EXCEPT ![Len(Gcf(plt))] =
                  [lines |-> @.lines \o tasks[r].series,
                   title |-> <<tasks[r].start_date, tasks[r].end_date>>]]
    /\ SetTask(r, [tasks[r] EXCEPT !.pc = "savefig"])
    /\ running' = None
    /\ UNCHANGED NotLoopVars

\* lines 133-138: plot, xticks, title, legend, tight_layout act on the current figure
gen_plot(r) ==
    /\ Runs(r)
    /\ tasks[r].pc = "plot"
    /\ plt' = [Gcf(plt) EXCEPT ![Len(Gcf(plt))] =
                  [lines |-> @.lines \o tasks[r].series,
                   title |-> <<tasks[r].start_date, tasks[r].end_date>>]]
    /\ SetTask(r, [tasks[r] EXCEPT !.pc = "savefig"])
    /\ UNCHANGED <<running, NotLoopVars>>

\* lines 139-140: plt.savefig writes the current figure
gen_savefig(r) ==
    /\ Runs(r)
    /\ tasks[r].pc = "savefig"
    /\ plt' = Gcf(plt)
    /\ SetTask(r, [tasks[r] EXCEPT !.pc = "close", !.plot_buf = Some(Gcf(plt)[Len(Gcf(plt))])])
    /\ UNCHANGED <<running, NotLoopVars>>

\* line 141: plt.close closes the current figure
gen_close(r) ==
    /\ Runs(r)
    /\ tasks[r].pc = "close"
    /\ plt' = IF plt = <<>> THEN plt ELSE SubSeq(plt, 1, Len(plt) - 1)
    /\ SetTask(r, [tasks[r] EXCEPT !.pc = "canvas"])
    /\ UNCHANGED <<running, NotLoopVars>>

\* lines 145-202
gen_canvas(r) ==
    /\ Runs(r)
    /\ tasks[r].pc = "canvas"
    /\ SetTask(r, [tasks[r] EXCEPT !.pc = "upload",
                       !.pdf = Some(Paint(tasks[r].title, tasks[r].rows, tasks[r].start_date,
                                          tasks[r].end_date, ChartImage))])
    /\ UNCHANGED <<running, plt, NotLoopVars>>

\* the first await after generate_pdf_buffer returned (line 367, line 385)
send_document(r) ==
    /\ Runs(r)
    /\ tasks[r].pc = "upload"
    /\ SetTask(r, [tasks[r] EXCEPT !.pc = "sending"])
    /\ running' = None
    /\ UNCHANGED <<plt, NotLoopVars>>

\* the loop gives the thread to a coroutine that waits
resume(r) ==
    /\ running = None
    /\ tasks[r].pc \notin {"new", "done"}
    /\ running' = Some(r)
    /\ UNCHANGED <<tasks, plt, NotLoopVars>>

\* the awaited calls are done and the coroutine returns
finish(r) ==
    /\ Runs(r)
    /\ tasks[r].pc = "sending"
    /\ SetTask(r, [tasks[r] EXCEPT !.pc = "done"])
    /\ running' = None
    /\ UNCHANGED <<plt, NotLoopVars>>

NextLoop ==
    \/ \E c \in Chats, a \in LoopArgs : report_begin(c, a)
    \/ daily_begin
    \/ \E r \in Requests : reply_no_entries(r)
    \/ \E r \in Requests : gen_series(r)
    \/ \E r \in Requests : gen_figure(r)
    \/ \E r \in Requests : gen_plot(r)
    \/ \E r \in Requests : gen_savefig(r)
    \/ \E r \in Requests : gen_close(r)
    \/ \E r \in Requests : gen_canvas(r)
    \/ \E r \in Requests : send_document(r)
    \/ \E r \in Requests : resume(r)
    \/ \E r \in Requests : finish(r)

SpecLoop == InitLoop /\ [][NextLoop]_vars

(***************************************************************************)
(* What a document shows.                                                  *)
(***************************************************************************)
RECURSIVE Flatten(_)
Flatten(pages) == IF pages = <<>> THEN <<>> ELSE Head(pages) \o Flatten(Tail(pages))

IsRowItem(it) == it.kind = "row"

RowItems(pdf) == SelectSeq(Flatten(pdf.pages), IsRowItem)

RowIds(pdf) == [i \in 1..Len(RowItems(pdf)) |-> RowItems(pdf)[i].id]

Reported == out.op # "none"
HasDoc == out.pdf # None
Doc == out.pdf[1]

\* the ids of the entries the last report request rendered
RenderedIds ==
    IF HasDoc /\ Doc.ok THEN {RowIds(Doc)[i] : i \in 1..Len(RowIds(Doc))} ELSE {}

DateOfIso(s) == s[1]

\* the stored entries of chat c dated within [a, b]
InWindow(c, a, b) ==
    {r \in Range(store) : r.chat_id = c /\ a <= DateOfIso(r.local_date) /\ DateOfIso(r.local_date) <= b}

\* the tick a stored timestamp text was taken at
TickOf(text) ==
    LET ts == FromIsoFormat(text)
    IN  (ts[1] * SecsPerDay + ts[2]) * TicksPerSec + ts[3]

(***************************************************************************)
(* C1: a report request whose window holds no entry of the chat calls      *)
(* generate_pdf_buffer not at all and sends the "No entries" message, no   *)
(* document.                                                               *)
(***************************************************************************)
C1_EmptyRangeSendsMessage ==
    (Reported /\ InWindow(out.chat_id, out.start_date, out.end_date) = {})
        => (out.pdf = None /\ out.sent = "message")

C1_Witness ==
    /\ out.op = "daily"
    /\ out.sent = "message"
    /\ \E i \in 1..Len(store) : store[i].chat_id = out.chat_id

(***************************************************************************)
(* C2: a report request renders exactly the stored entries of the chat     *)
(* whose local_date lies in [start_date, end_date], both bounds included,  *)
(* whatever saves and clock ticks came before the request.                 *)
(***************************************************************************)
C2_WindowInclusive ==
    Reported =>
        /\ RenderedIds = {r.id : r \in InWindow(out.chat_id, out.start_date, out.end_date)}
        /\ HasDoc => (Doc.ok /\ out.start_date <= out.end_date)

C2_Witness ==
    /\ HasDoc
    /\ out.sent = "document"
    /\ out.start_date = out.end_date
    /\ \E i \in 1..Len(store) :
           store[i].chat_id = out.chat_id /\ DateOfIso(store[i].local_date) < out.start_date
    /\ \E i \in 1..Len(store) :
           store[i].chat_id = out.chat_id /\ DateOfIso(store[i].local_date) = out.start_date

(***************************************************************************)
(* C3: a report for chat C shows only entries whose chat_id is C, and      *)
(* shows the entries in the window of every member of C.                   *)
(***************************************************************************)
C3_OnlyThisChat ==
    HasDoc =>
        /\ \A i \in 1..Len(RowIds(Doc)) : store[RowIds(Doc)[i]].chat_id = out.chat_id
        /\ \A u \in Users : \A r \in InWindow(out.chat_id, out.start_date, out.end_date) :
               r.user_id = u => \E i \in 1..Len(RowIds(Doc)) : RowIds(Doc)[i] = r.id

C3_Witness ==
    /\ HasDoc
    /\ out.op = "report"
    /\ Len(RowIds(Doc)) = 1
    /\ store[RowIds(Doc)[1]].user_id = 2
    /\ \E i \in 1..Len(store) :
           /\ store[i].chat_id # out.chat_id
           /\ DateOfIso(store[i].local_date) >= out.start_date

\* two stored entries of the reported window with the same date and meal, e1 recorded first
SameSlot(e1, e2) ==
    /\ e1 \in InWindow(out.chat_id, out.start_date, out.end_date)
    /\ e2 \in InWindow(out.chat_id, out.start_date, out.end_date)
    /\ e1.local_date = e2.local_date
    /\ e1.meal = e2.meal
    /\ TickOf(e1.timestamp) < TickOf(e2.timestamp)

\* the rows the document shows for a date and a meal
SlotItems(date, meal) ==
    {it \in Range(RowItems(Doc)) : it.ts[1] = DateOfIso(date) /\ it.data[1] = meal}

Exact(v) == IF v = None THEN "" ELSE FloatStr(v[1])

C5_RoundTrip ==
    HasDoc =>
        \A k \in 1..Len(RowItems(Doc)) :
            LET it == RowItems(Doc)[k]
                e == store[it.id]
            IN  /\ it.data[1] = e.meal
                /\ it.data[2] = Exact(e.pre_bgl)
                /\ it.data[3] = Exact(e.post_bgl)
                /\ it.data[4] = Exact(e.carbs)
                /\ it.data[5] = e.ratio
                /\ it.data[6] = Exact(e.insulin_units)
                /\ it.data[8] = (IF e.notes = None THEN "" ELSE e.notes[1])
                /\ (e.pre_bgl # None => it.data[2] # Exact(None))

(***************************************************************************)
(* C9: the rows of a document are in non-decreasing order of the time the  *)
(* entries were recorded at, whoever saved them and in whatever order.     *)
(***************************************************************************)
C9_RowsInTimeOrder ==
    HasDoc =>
        \A i, j \in 1..Len(RowIds(Doc)) :
            i < j => TickOf(store[RowIds(Doc)[i]].timestamp) <= TickOf(store[RowIds(Doc)[j]].timestamp)

C9_Witness ==
    /\ HasDoc
    /\ Len(RowIds(Doc)) = 2
    /\ store[RowIds(Doc)[1]].user_id # store[RowIds(Doc)[2]].user_id
    /\ Len(store[RowIds(Doc)[1]].timestamp) # Len(store[RowIds(Doc)[2]].timestamp)
    /\ TickOf(store[RowIds(Doc)[1]].timestamp) < TickOf(store[RowIds(Doc)[2]].timestamp)

(***************************************************************************)
(* C10: the table is append-only.  Every step keeps every stored entry as  *)
(* it is; a step that changes the table appends one row and is the confirm *)
(* handler ending a conversation; a report request changes nothing.        *)
(***************************************************************************)
C10_AppendOnly ==
    [][/\ Len(store') >= Len(store)
       /\ Len(store') <= Len(store) + 1
       /\ \A i \in 1..Len(store) : store'[i] = store[i]
       /\ (store' # store) =>
              \E <<c, u>> \in Members :
                  /\ conv[c][u] = CONFIRM
                  /\ conv'[c][u] = END
                  /\ store'[Len(store')].chat_id = c
                  /\ store'[Len(store')].user_id = u
       /\ (out' # NoReport) => (store' = store)]_vars

C10_Witness ==
    /\ Len(store) = MaxStore
    /\ out.sent = "document"
    /\ \E <<c, u>> \in Members : conv[c][u] = END /\ user_data[u] # EmptyDict

(***************************************************************************)
(* Documents of SpecPdf.                                                   *)
(***************************************************************************)
PdfDone == pdfOut # None
PdfDoc == pdfOut[1]

\* where the row of entry id is drawn: <<page, position on the page>>
PlacesOf(pdf, id) ==
    {<<p, k>> \in (1..Len(pdf.pages)) \X (1..(MaxRows + 6)) :
        /\ k <= Len(pdf.pages[p])
        /\ pdf.pages[p][k].kind = "row"
        /\ pdf.pages[p][k].id = id}

HasRows(page) == \E k \in 1..Len(page) : page[k].kind = "row"

(***************************************************************************)
(* C6: every row of a document is drawn once, on one page, with its        *)
(* baseline between the bottom reservation (margin + 20 mm) and the top    *)
(* margin of that page.                                                    *)
(***************************************************************************)
C6_RowOnOnePage ==
    (PdfDone /\ PdfDoc.ok) =>
        \A i \in 1..Len(pdfIn.rows) :
            /\ Cardinality(PlacesOf(PdfDoc, pdfIn.rows[i].id)) = 1
            /\ \A pk \in PlacesOf(PdfDoc, pdfIn.rows[i].id) :
                   /\ PdfDoc.pages[pk[1]][pk[2]].y >= margin + BottomReserve
                   /\ PdfDoc.pages[pk[1]][pk[2]].y <= PageHeight - margin

C6_Witness ==
    /\ PdfDone
    /\ PdfDoc.ok
    /\ Len(PdfDoc.pages) = 3
    /\ HasRows(PdfDoc.pages[3])
    /\ PdfDoc.pages[1][3].kind = "chart"

(***************************************************************************)
(* C7 as stated: every page of a document that carries rows starts with    *)
(* the header row, drawn above the rows of that page.                      *)
(***************************************************************************)
C7_HeaderOnEveryPage ==
    (PdfDone /\ PdfDoc.ok) =>
        \A p \in 1..Len(PdfDoc.pages) :
            HasRows(PdfDoc.pages[p]) =>
                \E h \in 1..Len(PdfDoc.pages[p]) :
                    /\ PdfDoc.pages[p][h].kind = "header"
                    /\ \A k \in 1..Len(PdfDoc.pages[p]) :
                           PdfDoc.pages[p][k].kind = "row" =>
                               (h < k /\ PdfDoc.pages[p][h].y > PdfDoc.pages[p][k].y)

(***************************************************************************)
(* C8 as stated: a row whose timestamp cannot be parsed is skipped, and    *)
(* the document holds every other row, in order.                           *)
(***************************************************************************)
WellFormed(r) == IsIso(r.timestamp)

C8_SkipsMalformedRow ==
    PdfDone =>
        /\ PdfDoc.ok
        /\ RowIds(PdfDoc) = [k \in 1..Len(SelectSeq(pdfIn.rows, WellFormed)) |->
                                 SelectSeq(pdfIn.rows, WellFormed)[k].id]

(***************************************************************************)
(* Conversations.                                                          *)
(***************************************************************************)
NonTerminal == {MEAL, PRE_BGL, POST_BGL, CARBS, RATIO, UNITS, NOTES, CONFIRM}

\* user u holds the same partial record after the step as before it, but for key k
OnlyKeyChanged(u, k) ==
    /\ DOMAIN user_data'[u] = DOMAIN user_data[u] \cup {k}
    /\ \A j \in DOMAIN user_data[u] : j # k => user_data'[u][j] = user_data[u][j]
    /\ \A v \in Users : v # u => user_data'[v] = user_data[v]

\* no conversation but that of u in c changes state in the step
OnlyConvChanged(c, u) ==
    \A <<c2, u2>> \in Members : <<c2, u2>> # <<c, u>> => conv'[c2][u2] = conv[c2][u2]

(***************************************************************************)
(* C11: /cancel is accepted in every non-terminal state of a conversation, *)
(* and a /cancel step moves that conversation to the terminal state,       *)
(* empties the partial record of its user and leaves the table as it was.  *)
(***************************************************************************)
C11_CancelAborts ==
    [][\A <<c, u>> \in Members :
           /\ (conv[c][u] \in NonTerminal) => ENABLED cancel(c, u)
           /\ cancel(c, u) =>
                  /\ conv[c][u] \in NonTerminal
                  /\ conv'[c][u] = END
                  /\ OnlyConvChanged(c, u)
                  /\ user_data'[u] = EmptyDict
                  /\ store' = store]_vars

\* a conversation at CONFIRM with a whole partial record, beside a stored entry, that
\* /cancel is about to abort
C11_Witness ==
    \E <<c, u>> \in Members :
        /\ conv[c][u] = CONFIRM
        /\ AllKeys \subseteq DOMAIN user_data[u]
        /\ store # <<>>
        /\ ENABLED (cancel(c, u) /\ conv'[c][u] = END /\ user_data'[u] = EmptyDict
                       /\ store' = store)

(***************************************************************************)
(* C12: in PRE_BGL, POST_BGL, CARBS and UNITS an answer that is neither    *)
(* "-" nor a number leaves the conversation in its state, the partial      *)
(* record and the table as they were; a valid answer moves the             *)
(* conversation to the next state of the order and changes the field of    *)
(* that state only, to the number read or to None for "-".                 *)
(***************************************************************************)
NumericStep(h(_, _, _), c, u, t, s, k) ==
    h(c, u, Some(t)) =>
        /\ conv[c][u] = s
        /\ store' = store
        /\ OnlyConvChanged(c, u)
        /\ IF Strip(t) = "-" \/ CanFloat(Strip(t))
           THEN /\ conv'[c][u] = s + 1
                /\ OnlyKeyChanged(u, k)
                /\ user_data'[u][k] =
                       (IF Strip(t) = "-" THEN None ELSE Some(ParseFloat(Strip(t))))
           ELSE /\ conv' = conv
                /\ user_data' = user_data

C12_NumericCapture ==
    [][\A <<c, u>> \in Members :
           /\ \A t \in PreTexts(c, u) : NumericStep(pre_bgl, c, u, t, PRE_BGL, "pre_bgl")
           /\ \A t \in PostTexts : NumericStep(post_bgl, c, u, t, POST_BGL, "post_bgl")
           /\ \A t \in CarbsTexts : NumericStep(carbs, c, u, t, CARBS, "carbs")
           /\ \A t \in UnitsTexts : NumericStep(units, c, u, t, UNITS, "insulin_units")]_vars

\* a conversation at UNITS holding five fields, where both an unreadable answer and "-"
\* can be sent
C12_Witness ==
    \E <<c, u>> \in Members :
        /\ conv[c][u] = UNITS
        /\ DOMAIN user_data[u] = {"meal", "pre_bgl", "post_bgl", "carbs", "ratio"}
        /\ user_data[u]["pre_bgl"] = Some(0)
        /\ ENABLED (units(c, u, Some("x")) /\ conv' = conv /\ user_data' = user_data)
        /\ ENABLED (units(c, u, Some("-")) /\ conv'[c][u] = NOTES
                       /\ user_data'[u]["insulin_units"] = None)

\* what u can have answered in chat c for the pre-meal value and for the notes
PreAnswers(c, u) ==
    {NumberOf(Strip(t)) : t \in {x \in PreTexts(c, u) : IsNumberAnswer(Strip(x))}}

NotesAnswers(c, u) ==
    {IF Strip(t) = "-" THEN None ELSE Some(Strip(t)) : t \in NotesTexts(c, u)}

(***************************************************************************)
(* C14 as stated: a stored entry of chat C holds what its user answered in *)
(* the conversation of chat C, also when that user has a conversation in   *)
(* the other chat going on at the same time.                               *)
(***************************************************************************)
C14_OwnAnswers ==
    \A i \in 1..Len(store) :
        /\ store[i].pre_bgl \in PreAnswers(store[i].chat_id, store[i].user_id)
        /\ store[i].notes \in NotesAnswers(store[i].chat_id, store[i].user_id)

\* the answers that confirm
IsYes(t) == Lower(t) \in {"yes", "y"}

\* the step moves the conversation of (c, u) along the order of the states
InOrder(c, u) ==
    \/ conv'[c][u] = conv[c][u]
    \/ conv[c][u] = END /\ conv'[c][u] = MEAL
    \/ conv[c][u] \in NonTerminal \ {CONFIRM} /\ conv'[c][u] \in {conv[c][u] + 1, END}
    \/ conv[c][u] = CONFIRM /\ conv'[c][u] = END

(***************************************************************************)
(* C15 as stated: the table changes only in a confirm step answering "yes" *)
(* or "y" in any case, of a conversation that went through MEAL, PRE_BGL,  *)
(* POST_BGL, CARBS, RATIO, UNITS and NOTES in this order; such an answer   *)
(* at CONFIRM inserts exactly one entry, of this chat and user, and ends   *)
(* the conversation; any other answer ends it and inserts nothing.         *)
(***************************************************************************)
C15_InsertOnConfirm ==
    [][/\ \A <<c, u>> \in Members : InOrder(c, u)
       /\ (store' # store) =>
              \E <<c, u>> \in Members, t \in ConfirmTexts :
                  conv[c][u] = CONFIRM /\ IsYes(t) /\ confirm(c, u, Some(t))
       /\ \A <<c, u>> \in Members, t \in ConfirmTexts :
              /\ (conv[c][u] = CONFIRM /\ IsYes(t) /\ Len(store) < MaxStore) =>
                     ENABLED (/\ confirm(c, u, Some(t))
                              /\ Len(store') = Len(store) + 1
                              /\ store'[Len(store')].chat_id = c
                              /\ store'[Len(store')].user_id = u
                              /\ conv'[c][u] = END)
              /\ (conv[c][u] = CONFIRM /\ ~IsYes(t)) =>
                     ENABLED (confirm(c, u, Some(t)) /\ store' = store /\ conv'[c][u] = END)
              /\ (confirm(c, u, Some(t)) /\ ~IsYes(t)) => (store' = store /\ conv'[c][u] = END)]_vars

(***************************************************************************)
(* C16 as stated: a user none of whose conversations is open (each was     *)
(* saved, declined or cancelled, or never begun) has an empty partial      *)
(* record.                                                                 *)
(***************************************************************************)
C16_EmptyAtEnd ==
    \A u \in Users :
        (\A c \in Chats : conv[c][u] = END) => user_data[u] = EmptyDict

(***************************************************************************)
(* C17 as stated: the last page of a document with rows carries a row: no  *)
(* page is begun after the last row, also when that row is the one that    *)
(* reaches the page-break threshold.                                       *)
(***************************************************************************)
C17_LastPageHasRows ==
    (PdfDone /\ PdfDoc.ok /\ pdfIn.rows # <<>>) =>
        HasRows(PdfDoc.pages[Len(PdfDoc.pages)])

(***************************************************************************)
(* C18 as stated: whatever the argument of /report, the window of the      *)
(* request has end_date today, start_date = end_date - (days - 1),         *)
(* days >= 1 and so start_date <= end_date.                                *)
(***************************************************************************)
C18_WindowOrdered ==
    (out.op = "report") =>
        /\ out.end_date = Today(now)
        /\ out.start_date = out.end_date - (out.days - 1)
        /\ out.days >= 1
        /\ out.start_date <= out.end_date

\* the positions of a coroutine inside generate_pdf_buffer
InGenerate == {"parse", "figure", "plot", "savefig", "close", "canvas"}

\* the figure a call of its own draws for these rows and dates
ChartOf(rows, start_date, end_date) ==
    [lines |-> Series(rows), title |-> <<start_date, end_date>>]

(***************************************************************************)
(* C13: at most one report request is inside generate_pdf_buffer at a      *)
(* time, whether it came by /report or from the daily job; no figure is    *)
(* left open between calls; and the chart and the document of a request    *)
(* are those of its own rows, title and dates, whatever other requests     *)
(* ran before it or while it waited.                                       *)
(***************************************************************************)
C13_ReportsIsolated ==
    /\ Cardinality({r \in Requests : tasks[r].pc \in InGenerate}) <= 1
    /\ \A r \in Requests : (tasks[r].pc \in InGenerate) => Runs(r)
    /\ (\A r \in Requests : tasks[r].pc \notin InGenerate) => plt = <<>>
    /\ \A r \in Requests :
           tasks[r].pdf # None =>
               /\ tasks[r].plot_buf =
                      Some(ChartOf(tasks[r].rows, tasks[r].start_date, tasks[r].end_date))
               /\ tasks[r].pdf =
                      Some(generate_pdf_buffer(tasks[r].title, tasks[r].rows, tasks[r].start_date,
                                               tasks[r].end_date, ChartImage))

\* the daily job and /report of the other chat both made a document, of different rows,
\* one of them while the other waited for its upload
C13_Witness ==
    \E r1, r2 \in Requests :
        /\ r1.op = "daily" /\ r2.op = "report" /\ r2.chat_id # r1.chat_id
        /\ tasks[r1].pc = "sending" /\ tasks[r1].pdf # None
        /\ tasks[r2].pc = "done" /\ tasks[r2].pdf # None
        /\ tasks[r1].plot_buf # tasks[r2].plot_buf

====
